---- MODULE Spec2Model ----
(***************************************************************************)
(* State-machine model of the CH340 relay board driver (relay_driver.py)   *)
(* and of the role controller built on it (relay_controller.py).           *)
(*                                                                         *)
(* Time is counted in ticks of 25 ms.  time.time() is modelled by the      *)
(* non-decreasing clock `now`; time.sleep(d) returns after at least d.     *)
(* The serial library (serial.Serial, comports) is the environment: each   *)
(* call into it draws its outcome (success, SerialException) with \E.      *)
(***************************************************************************)
EXTENDS Integers, Sequences, FiniteSets, TLC

\* ------------------------------------------------------------- constants
START_FLAG == 160
STATE_OFF == 0
STATE_ON == 1
STATUS_QUERY == 255
\* COMMAND_DELAY = 0.05 s = 2 ticks
COMMAND_DELAY == 2
\* time.sleep(0.1) in connect = 4 ticks
SETTLE_DELAY == 4
\* time.sleep(0.1) in query_status = 4 ticks
QUERY_WAIT == 4
\* for i in range(1, 9)
RELAY_COUNT == 8

\* --------------------------------------------------------------- bounds
\* no call is started after MaxTime (a running call completes)
MaxTime == 8
\* the clock is observed for at most MaxElapsed ticks past the last send
MaxElapsed == 4
\* ticks a write+flush, or the oversleep of a sleep, may take
MaxJitter == 1
\* number of serial ports the system enumerates
MaxPorts == 2
\* the largest relay number tried as an argument
MaxRelayArg == 9
\* bytes that may arrive from the board during one wait
MaxBuf == 2
\* the battery voltages asked about, in volts
MaxVolt == 12

\* relay numbers tried as arguments: both ends of [1,8] and their neighbours;
\* the bulk operations send the frames of every relay in between
RelayArgs == {0, 1, RELAY_COUNT} \cup (RELAY_COUNT + 1)..MaxRelayArg
NoPort == "None"
Devices == {"COM3", "COM4"}
\* what `port.description.upper()` contains: 'CH340', 'USB-SERIAL', neither
DescKinds == {"ch340", "usb-serial", "other"}
PortInfos == [device : Devices, description : DescKinds]
StatusBytes == {17, 34}
NoTime == 0 - 1

SeqsUpTo(S, n) == UNION {[1..k -> S] : k \in 0..n}

VARIABLES
    port,               \* self.port: NoPort or a device name
    serial_conn,        \* self.serial_conn: "None", or a Serial object that is "open" or "closed"
    last_command_time,  \* self.last_command_time
    states,             \* RelayController.states
    now,                \* the reading of time.time()
    inbuf,              \* the channel's inbound buffer
    pc,                 \* the bulk operation in progress, "idle" if none
    i,                  \* its loop variable
    scope,              \* "out", "in" a with-block, or "deleted"
    call,               \* the most recent call: [op, n, on, again, fresh, data]; for connect, n is the
                        \* number of matching ports enumerated and on whether the port can be
                        \* opened; for a bulk call, n is the relay whose send raised, if any
    pre,                \* the fields, the cache and the buffer when that call was entered
    result,             \* how it ended ("ok" or the error raised), or its last iteration did
    ret,                \* the value it returned
    wire,               \* the frames it handed to the channel, in order
    io,                 \* the library calls it (or its last iteration) made
    doneAt,             \* completion time of the last completed send, NoTime if none
    gap,                \* ticks between the last two completed sends (capped), NoTime if fewer
    nap,                \* [elapsed, slept] of the last send that got to its spacing check:
                        \* the elapsed time it computed (capped) and the sleep it took
    channels,           \* the serial channels this driver has opened and not closed
    relay_count         \* the board size in the settings store, 4 or 8

drvVars == <<port, serial_conn, last_command_time>>
ctlVars == <<states>>
posVars == <<pc, i, scope>>
sendVars == <<doneAt, gap, nap>>
envVars == <<channels, relay_count>>
vars == <<port, serial_conn, last_command_time, states, now, inbuf, pc, i, scope,
          call, pre, result, ret, wire, io, doneAt, gap, nap, channels, relay_count>>

NoNap == [elapsed |-> NoTime, slept |-> NoTime]

\* a call; `again`: the call before it was the same call and returned normally;
\* `fresh`: for a connect, the call before it was a disconnect; for a single send,
\* the call before it was such a connect and returned True
\* `data`: the bytes the board sent while it ran
Call(op, n, on) ==
    [op |-> op, n |-> n, on |-> on,
     again |-> (call.op = op /\ call.n = n /\ call.on = on /\ result = "ok"),
     fresh |-> IF op \in {"connect", "__enter__"}
               THEN call.op \in {"disconnect", "__exit__"}
               ELSE /\ op \in {"set_relay", "relay_on", "relay_off", "query_status"}
                    /\ call.op \in {"connect", "__enter__"} /\ call.fresh /\ result = "ok",
     data |-> <<>>]
RetNone == [kind |-> "None", data |-> <<>>]
RetTrue == [kind |-> "True", data |-> <<>>]
RetBytes(b) == [kind |-> "bytes", data |-> b]

\* the driver's fields, the controller's cache and the buffer, as a call finds them;
\* `started` is the clock when a bulk call was entered (kept for bulk calls only)
Snapshot ==
    [port |-> port, serial_conn |-> serial_conn, last_command_time |-> last_command_time,
     states |-> states, inbuf |-> inbuf, started |-> NoTime]

\* RelayDriver.__init__ followed by RelayController.__init__: with auto_connect=False
\* and any port argument, or with auto_connect=True once connect has returned
Start ==
    /\ port \in {NoPort, "COM3"}
    /\ serial_conn \in {"None", "open"}
    /\ serial_conn = "open" => port # NoPort
    /\ last_command_time = 0
    /\ states = [r \in 1..4 |-> FALSE]
    /\ now = COMMAND_DELAY
    /\ inbuf = <<>>
    /\ pc = "idle"
    /\ i = 0
    /\ scope = "out"
    /\ call = [op |-> "__init__", n |-> 0, on |-> FALSE, again |-> FALSE, fresh |-> FALSE,
               data |-> <<>>]
    /\ pre = [port |-> port, serial_conn |-> serial_conn, last_command_time |-> 0,
              states |-> states, inbuf |-> <<>>, started |-> NoTime]
    /\ result = "ok"
    /\ ret = RetNone
    /\ wire = <<>>
    /\ io = {}
    /\ doneAt = NoTime
    /\ gap = NoTime
    /\ nap = NoNap
    /\ channels = (IF serial_conn = "open" THEN 1 ELSE 0)

\* the driver and the controller on their own: the settings store holds its default,
\* the '4-relay' board
Init == Start /\ relay_count = 4

\* the manual-control window: `self.relay_count = 4 if ... == '4-relay' else 8`
InitGUI == Start /\ relay_count \in {4, RELAY_COUNT}

\* (mutant) the connection check without `.is_open`
IsOpen_NotNone == serial_conn # "None"

\* `self.serial_conn and self.serial_conn.is_open`
IsOpen == serial_conn = "open"

\* ---------------------------------------------------------------- clock
\* a call is made when no call is running, on a live object, up to MaxTime
CanCall == pc = "idle" /\ scope # "deleted" /\ now <= MaxTime

Tick ==
    /\ scope # "deleted"
    /\ now < MaxTime
    /\ now - last_command_time < MaxElapsed
    /\ now' = now + 1
    /\ UNCHANGED <<drvVars, ctlVars, inbuf, posVars, call, pre, result, ret, wire, io, sendVars,
                   envVars>>

\* ------------------------------------------------------------ discovery
\* `'CH340' in port.description.upper() or 'USB-SERIAL' in port.description.upper()`
Matches(description) == description \in {"ch340", "usb-serial"}

RECURSIVE FirstMatch(_, _)
\* `for port in ports: if ...: return port.device` from position k on; `return None`
FirstMatch(ports, k) ==
    IF k > Len(ports) THEN NoPort
    ELSE IF Matches(ports[k].description) THEN ports[k].device
    ELSE FirstMatch(ports, k + 1)

\* (mutant) discovery that falls back to a default port
_find_ch340_port_Default(ports) ==
    IF FirstMatch(ports, 1) = NoPort THEN "COM3" ELSE FirstMatch(ports, 1)

\* RelayDriver._find_ch340_port, `ports` being what comports() returns
_find_ch340_port(ports) == FirstMatch(ports, 1)

\* the number of enumerated ports whose description names the bridge
MatchCount(ports) == Cardinality({k \in 1..Len(ports) : Matches(ports[k].description)})

\* -------------------------------------------------------------- connect
\* (mutant) a Serial object is assigned before its port is opened
OpenPort_Assigned(openOk, over) ==
    IF openOk
    THEN [result |-> "ok", ret |-> RetTrue, serial_conn |-> "open", inbuf |-> <<>>,
          now |-> now + SETTLE_DELAY + over, io |-> {"Serial", "sleep"}]
    ELSE [result |-> "ConnectionFailed", ret |-> RetNone, serial_conn |-> "closed",
          inbuf |-> <<>>, now |-> now, io |-> {"Serial"}]

\* `self.serial_conn = serial.Serial(...); time.sleep(0.1); return True` and the
\* except clause: `openOk` is whether the constructor returns, `over` the oversleep
OpenPort(openOk, over) ==
    IF openOk
    THEN [result |-> "ok", ret |-> RetTrue, serial_conn |-> "open", inbuf |-> <<>>,
          now |-> now + SETTLE_DELAY + over, io |-> {"Serial", "sleep"}]
    ELSE [result |-> "ConnectionFailed", ret |-> RetNone, serial_conn |-> serial_conn,
          inbuf |-> inbuf, now |-> now, io |-> {"Serial"}]

\* (mutant) connect without the early return of an open connection
Connect_Reopen(ports, openOk, over) ==
    LET p == IF port = NoPort THEN _find_ch340_port(ports) ELSE port
        o == OpenPort(openOk, over)
    IN  IF p = NoPort
        THEN [result |-> "DeviceNotFound", ret |-> RetNone, port |-> p,
              serial_conn |-> serial_conn, inbuf |-> inbuf, now |-> now, io |-> {"comports"}]
        ELSE [result |-> o.result, ret |-> o.ret, port |-> p,
              serial_conn |-> o.serial_conn, inbuf |-> o.inbuf, now |-> o.now, io |-> o.io]

\* the outcome of RelayDriver.connect
Connect(ports, openOk, over) ==
    IF IsOpen
    THEN [result |-> "ok", ret |-> RetTrue, port |-> port, serial_conn |-> serial_conn,
          inbuf |-> inbuf, now |-> now, io |-> {}]
    ELSE LET p == IF port = NoPort THEN _find_ch340_port(ports) ELSE port
             disc == IF port = NoPort THEN {"comports"} ELSE {}
             o == OpenPort(openOk, over)
         IN  IF p = NoPort
             THEN [result |-> "DeviceNotFound", ret |-> RetNone, port |-> p,
                   serial_conn |-> serial_conn, inbuf |-> inbuf, now |-> now, io |-> disc]
             ELSE [result |-> o.result, ret |-> o.ret, port |-> p,
                   serial_conn |-> o.serial_conn, inbuf |-> o.inbuf, now |-> o.now,
                   io |-> disc \cup o.io]

\* the environment of one connect call: the enumeration is read only when no port is
\* set, the constructor is called only when no connection is open
ConnectInputs ==
    {<<ports, openOk, over>> \in
        SeqsUpTo(PortInfos, MaxPorts) \X BOOLEAN \X (0..MaxJitter) :
            /\ (port = NoPort /\ ~IsOpen) \/ ports = <<>>
            /\ ~IsOpen \/ (openOk /\ over = 0)
            /\ openOk \/ over = 0}

CommitConnect(r) ==
    /\ port' = r.port
    /\ serial_conn' = r.serial_conn
    /\ inbuf' = r.inbuf
    /\ now' = r.now
    /\ result' = r.result
    /\ ret' = r.ret
    /\ io' = r.io
    /\ wire' = <<>>
    /\ pre' = Snapshot
    /\ channels' = (IF "Serial" \in r.io /\ r.result = "ok" THEN channels + 1 ELSE channels)
    /\ UNCHANGED <<last_command_time, ctlVars, pc, i, sendVars, relay_count>>

connect ==
    /\ CanCall
    /\ \E in \in ConnectInputs :
          /\ CommitConnect(Connect(in[1], in[2], in[3]))
          /\ call' = Call("connect", MatchCount(in[1]), in[2])
    /\ UNCHANGED scope

\* ----------------------------------------------------------- disconnect
\* (mutant) a disconnect that switches every relay off before it closes
Disconnect_AllOff(closeOk, stillOpen) ==
    IF IsOpen
    THEN [result |-> IF closeOk THEN "ok" ELSE "TransportError",
          serial_conn |-> IF closeOk THEN "None" ELSE IF stillOpen THEN "open" ELSE "closed",
          inbuf |-> <<>>, io |-> {"write", "flush", "close"},
          wire |-> [k \in 1..RELAY_COUNT |->
                      <<START_FLAG, k, STATE_OFF, (START_FLAG + k + STATE_OFF) % 256>>],
          last_command_time |-> last_command_time]
    ELSE [result |-> "ok", serial_conn |-> serial_conn, inbuf |-> inbuf, io |-> {},
          wire |-> <<>>, last_command_time |-> last_command_time]

\* (mutant) a disconnect that also forgets when the last command was sent
Disconnect_ResetStamp(closeOk, stillOpen) ==
    IF IsOpen
    THEN IF closeOk
         THEN [result |-> "ok", serial_conn |-> "None", inbuf |-> <<>>, io |-> {"close"},
               wire |-> <<>>, last_command_time |-> 0]
         ELSE [result |-> "TransportError",
               serial_conn |-> IF stillOpen THEN "open" ELSE "closed",
               inbuf |-> IF stillOpen THEN inbuf ELSE <<>>, io |-> {"close"},
               wire |-> <<>>, last_command_time |-> 0]
    ELSE [result |-> "ok", serial_conn |-> serial_conn, inbuf |-> inbuf, io |-> {},
          wire |-> <<>>, last_command_time |-> 0]

\* the outcome of RelayDriver.disconnect: `closeOk` is whether close() returns,
\* `stillOpen` the is_open flag the library leaves when close() raises
Disconnect(closeOk, stillOpen) ==
    IF IsOpen
    THEN IF closeOk
         THEN [result |-> "ok", serial_conn |-> "None", inbuf |-> <<>>, io |-> {"close"},
               wire |-> <<>>, last_command_time |-> last_command_time]
         ELSE [result |-> "TransportError",
               serial_conn |-> IF stillOpen THEN "open" ELSE "closed",
               inbuf |-> IF stillOpen THEN inbuf ELSE <<>>, io |-> {"close"},
               wire |-> <<>>, last_command_time |-> last_command_time]
    ELSE [result |-> "ok", serial_conn |-> serial_conn, inbuf |-> inbuf, io |-> {},
          wire |-> <<>>, last_command_time |-> last_command_time]

DisconnectInputs ==
    {<<closeOk, stillOpen>> \in BOOLEAN \X BOOLEAN :
        /\ IsOpen \/ (closeOk /\ ~stillOpen)
        /\ ~closeOk \/ ~stillOpen}

CommitDisconnect(r) ==
    /\ serial_conn' = r.serial_conn
    /\ inbuf' = r.inbuf
    /\ result' = r.result
    /\ io' = r.io
    /\ ret' = RetNone
    /\ wire' = r.wire
    /\ last_command_time' = r.last_command_time
    /\ channels' = (IF "close" \in r.io /\ r.serial_conn # "open" THEN channels - 1 ELSE channels)
    /\ pre' = Snapshot
    /\ UNCHANGED <<port, now, ctlVars, pc, i, sendVars, relay_count>>

disconnect ==
    /\ CanCall
    /\ \E in \in DisconnectInputs : CommitDisconnect(Disconnect(in[1], in[2]))
    /\ call' = Call("disconnect", 0, FALSE)
    /\ UNCHANGED scope

\* ---------------------------------------------------------------- scope
\* `with RelayDriver(...) as relay:` enters the block if connect returns
__enter__ ==
    /\ CanCall /\ scope = "out"
    /\ \E in \in ConnectInputs :
          /\ CommitConnect(Connect(in[1], in[2], in[3]))
          /\ call' = Call("__enter__", MatchCount(in[1]), in[2])
    /\ scope' = (IF result' = "ok" THEN "in" ELSE "out")

\* the block is left, by its end or (raised) by an exception of a call made in it
__exit__(raised) ==
    /\ pc = "idle" /\ scope = "in"
    /\ raised => result # "ok"
    /\ \E in \in DisconnectInputs : CommitDisconnect(Disconnect(in[1], in[2]))
    /\ call' = Call("__exit__", 0, raised)
    /\ scope' = "out"

\* the object is collected; nothing is called on it afterwards
__del__ ==
    /\ pc = "idle" /\ scope = "out"
    /\ \E in \in DisconnectInputs : CommitDisconnect(Disconnect(in[1], in[2]))
    /\ call' = Call("__del__", 0, FALSE)
    /\ scope' = "deleted"

\* ----------------------------------------------------------------- send
\* (mutant) a checksum that leaves out the state byte
_calculate_checksum_NoState(relay_num, state) == (START_FLAG + relay_num) % 256

\* `(START_FLAG + relay_num + state) & 0xFF`
_calculate_checksum(relay_num, state) == (START_FLAG + relay_num + state) % 256

\* (mutant) no delay is enforced
SleepFor_None(t, last) == 0

\* (mutant) the full delay before every send
SleepFor_Always(t, last) == COMMAND_DELAY

\* the argument of time.sleep in _send_command when time.time() reads t; 0: no sleep
SleepFor(t, last) == IF t - last < COMMAND_DELAY THEN COMMAND_DELAY - (t - last) ELSE 0

\* (mutant) a send that never records its time
Stamp_Old(done, old) == old

\* self.last_command_time after a send whose write and flush completed at `done`
Stamp(done, old) == done

Min(a, b) == IF a < b THEN a ELSE b

\* the outcome of RelayDriver._send_command(command); w0 holds the frames the running
\* call has sent before.  `dur`: ticks taken by write+flush and by oversleeping;
\* `out`: "ok", or write() raises, or flush() raises after write() returned
_send_command(command, w0, dur, out) ==
    IF ~IsOpen
    THEN [result |-> "NotConnected", wire |-> w0, io |-> {}, now |-> now,
          last_command_time |-> last_command_time, doneAt |-> doneAt, gap |-> gap,
          nap |-> nap]
    ELSE LET d == SleepFor(now, last_command_time)
             done == now + d + dur
             lib == IF d > 0 THEN {"sleep", "write"} ELSE {"write"}
             took == [elapsed |-> Min(now - last_command_time, COMMAND_DELAY), slept |-> d]
         IN  IF out = "write_error"
             THEN [result |-> "TransportError", wire |-> w0, io |-> lib, now |-> done,
                   last_command_time |-> last_command_time, doneAt |-> doneAt, gap |-> gap,
                   nap |-> took]
             ELSE IF out = "flush_error"
             THEN [result |-> "TransportError", wire |-> Append(w0, command),
                   io |-> lib \cup {"flush"}, now |-> done,
                   last_command_time |-> last_command_time, doneAt |-> doneAt, gap |-> gap,
                   nap |-> took]
             ELSE [result |-> "ok", wire |-> Append(w0, command),
                   io |-> lib \cup {"flush"}, now |-> done,
                   last_command_time |-> Stamp(done, last_command_time),
                   doneAt |-> done,
                   gap |-> IF doneAt = NoTime THEN NoTime
                           ELSE Min(done - doneAt, COMMAND_DELAY),
                   nap |-> took]

SendInputs == (0..MaxJitter) \X {"ok", "write_error", "flush_error"}

\* (mutant) a range check without its upper end
ValidRelay_NoUpper(relay_num) == 1 <= relay_num

\* `1 <= relay_num <= 8`
ValidRelay(relay_num) == 1 <= relay_num /\ relay_num <= 8

\* `self.STATE_ON if state else self.STATE_OFF`
StateByte(state) == IF state THEN STATE_ON ELSE STATE_OFF

\* `bytes([self.START_FLAG, relay_num, state_byte, checksum])`
Frame(relay_num, state) ==
    <<START_FLAG, relay_num, StateByte(state), _calculate_checksum(relay_num, StateByte(state))>>

\* (mutant) a set_relay that looks at the connection before it looks at its argument
SetRelay_ConnectionFirst(relay_num, state, w0, dur, out) ==
    IF ~IsOpen
    THEN [result |-> "NotConnected", wire |-> w0, io |-> {}, now |-> now,
          last_command_time |-> last_command_time, doneAt |-> doneAt, gap |-> gap,
          nap |-> nap]
    ELSE IF ~ValidRelay(relay_num)
    THEN [result |-> "InvalidArgument", wire |-> w0, io |-> {}, now |-> now,
          last_command_time |-> last_command_time, doneAt |-> doneAt, gap |-> gap,
          nap |-> nap]
    ELSE _send_command(Frame(relay_num, state), w0, dur, out)

\* (mutant) a set_relay that sends nothing when the call before it was the same
\* set_relay and returned
SetRelay_Dedup(relay_num, state, w0, dur, out) ==
    IF ~ValidRelay(relay_num)
    THEN [result |-> "InvalidArgument", wire |-> w0, io |-> {}, now |-> now,
          last_command_time |-> last_command_time, doneAt |-> doneAt, gap |-> gap,
          nap |-> nap]
    ELSE IF call.op = "set_relay" /\ call.n = relay_num /\ call.on = state /\ result = "ok"
    THEN [result |-> "ok", wire |-> w0, io |-> {}, now |-> now,
          last_command_time |-> last_command_time, doneAt |-> doneAt, gap |-> gap,
          nap |-> nap]
    ELSE _send_command(Frame(relay_num, state), w0, dur, out)

\* the outcome of RelayDriver.set_relay(relay_num, state)
SetRelay(relay_num, state, w0, dur, out) ==
    IF ~ValidRelay(relay_num)
    THEN [result |-> "InvalidArgument", wire |-> w0, io |-> {}, now |-> now,
          last_command_time |-> last_command_time, doneAt |-> doneAt, gap |-> gap,
          nap |-> nap]
    ELSE _send_command(Frame(relay_num, state), w0, dur, out)

\* the effect of a set_relay or _send_command outcome on the driver
CommitDriver(r) ==
    /\ result' = r.result
    /\ wire' = r.wire
    /\ io' = r.io
    /\ now' = r.now
    /\ last_command_time' = r.last_command_time
    /\ doneAt' = r.doneAt
    /\ gap' = r.gap
    /\ nap' = r.nap
    /\ UNCHANGED <<port, serial_conn, scope, channels, relay_count>>

\* the same, for a call made on the driver directly: the controller is not involved
CommitSend(r) == CommitDriver(r) /\ UNCHANGED ctlVars

set_relay(relay_num, state) ==
    /\ CanCall
    /\ \E in \in SendInputs : CommitSend(SetRelay(relay_num, state, <<>>, in[1], in[2]))
    /\ call' = Call("set_relay", relay_num, state)
    /\ pre' = Snapshot
    /\ ret' = RetNone
    /\ UNCHANGED <<inbuf, pc, i>>

\* `self.set_relay(relay_num, True)`
relay_on(relay_num) ==
    /\ CanCall
    /\ \E in \in SendInputs : CommitSend(SetRelay(relay_num, TRUE, <<>>, in[1], in[2]))
    /\ call' = Call("relay_on", relay_num, TRUE)
    /\ pre' = Snapshot
    /\ ret' = RetNone
    /\ UNCHANGED <<inbuf, pc, i>>

\* `self.set_relay(relay_num, False)`
relay_off(relay_num) ==
    /\ CanCall
    /\ \E in \in SendInputs : CommitSend(SetRelay(relay_num, FALSE, <<>>, in[1], in[2]))
    /\ call' = Call("relay_off", relay_num, FALSE)
    /\ pre' = Snapshot
    /\ ret' = RetNone
    /\ UNCHANGED <<inbuf, pc, i>>

\* ----------------------------------------------------------------- bulk
\* RelayDriver.all_on / all_off are entered by these actions and run one
\* iteration of their loop per step; no other call runs meanwhile
EnterBulk(op, state) ==
    /\ pc' = op /\ i' = 1
    /\ call' = Call(op, 0, state)
    /\ pre' = [Snapshot EXCEPT !.started = now]
    /\ result' = "ok" /\ ret' = RetNone /\ wire' = <<>> /\ io' = {}
    /\ UNCHANGED <<drvVars, ctlVars, now, inbuf, scope, sendVars, envVars>>

all_on == CanCall /\ EnterBulk("all_on", TRUE)

all_off == CanCall /\ EnterBulk("all_off", FALSE)

\* one iteration of `for i in range(1, 9): self.relay_on(i)` (resp. relay_off):
\* an exception leaves the loop, the last iteration returns
\* a loop that stops one relay short, range(1, 8)
BulkIter_Short(state) ==
    /\ \E in \in SendInputs : CommitSend(SetRelay(i, state, wire, in[1], in[2]))
    /\ IF result' = "ok" /\ i < RELAY_COUNT - 1
       THEN pc' = pc /\ i' = i + 1
       ELSE pc' = "idle" /\ i' = 0
    /\ call' = (IF result' = "ok" THEN call ELSE [call EXCEPT !.n = i])
    /\ UNCHANGED <<inbuf, pre, ret>>

\* a loop that swallows the error of one relay and goes on with the next
BulkIter_Continue(state) ==
    /\ \E in \in SendInputs : CommitSend(SetRelay(i, state, wire, in[1], in[2]))
    /\ IF i < RELAY_COUNT
       THEN pc' = pc /\ i' = i + 1
       ELSE pc' = "idle" /\ i' = 0
    /\ call' = (IF result' = "ok" THEN call ELSE [call EXCEPT !.n = i])
    /\ UNCHANGED <<inbuf, pre, ret>>

\* one iteration of the loop of all_on / all_off: relay_on(i) or relay_off(i); an
\* exception leaves the loop and the call
BulkIter(state) ==
    /\ \E in \in SendInputs : CommitSend(SetRelay(i, state, wire, in[1], in[2]))
    /\ IF result' = "ok" /\ i < RELAY_COUNT
       THEN pc' = pc /\ i' = i + 1
       ELSE pc' = "idle" /\ i' = 0
    /\ call' = (IF result' = "ok" THEN call ELSE [call EXCEPT !.n = i])
    /\ UNCHANGED <<inbuf, pre, ret>>

all_on_step == pc = "all_on" /\ BulkIter(TRUE)

all_off_step == pc = "all_off" /\ BulkIter(FALSE)

\* ---------------------------------------------------------------- query
\* (mutant) the inverted check of the legacy code: NotConnected when the channel
\* is open, and on into the send when it is not
QueryStatus_Inverted(arrived, dur, out) ==
    IF IsOpen
    THEN [result |-> "NotConnected", ret |-> RetNone, inbuf |-> inbuf, wire |-> <<>>,
          io |-> {}, now |-> now, last_command_time |-> last_command_time,
          doneAt |-> doneAt, gap |-> gap,
          nap |-> nap]
    ELSE [result |-> "TransportError", ret |-> RetNone, inbuf |-> <<>>, wire |-> <<>>,
          io |-> {"reset_input_buffer"}, now |-> now,
          last_command_time |-> last_command_time, doneAt |-> doneAt, gap |-> gap,
          nap |-> nap]

\* (mutant) a query that does not clear the inbound buffer before it sends
QueryStatus_NoClear(arrived, dur, out) ==
    IF ~IsOpen
    THEN [result |-> "NotConnected", ret |-> RetNone, inbuf |-> inbuf, wire |-> <<>>,
          io |-> {}, now |-> now, last_command_time |-> last_command_time,
          doneAt |-> doneAt, gap |-> gap,
          nap |-> nap]
    ELSE LET s == _send_command(<<STATUS_QUERY>>, <<>>, dur, out)
         IN  IF s.result # "ok"
             THEN [result |-> s.result, ret |-> RetNone, inbuf |-> inbuf, wire |-> s.wire,
                   io |-> s.io, now |-> s.now,
                   last_command_time |-> s.last_command_time,
                   doneAt |-> s.doneAt, gap |-> s.gap,
                   nap |-> s.nap]
             ELSE [result |-> "ok",
                   ret |-> IF Len(inbuf \o arrived) > 0
                           THEN RetBytes(inbuf \o arrived) ELSE RetNone,
                   inbuf |-> <<>>, wire |-> s.wire,
                   io |-> s.io \cup {"sleep"} \cup
                          (IF Len(inbuf \o arrived) > 0 THEN {"read"} ELSE {}),
                   now |-> s.now + QUERY_WAIT,
                   last_command_time |-> s.last_command_time,
                   doneAt |-> s.doneAt, gap |-> s.gap,
                   nap |-> s.nap]

\* the outcome of RelayDriver.query_status; `arrived` are the bytes the board sends
\* during the wait that follows the send
QueryStatus(arrived, dur, out) ==
    IF ~IsOpen
    THEN [result |-> "NotConnected", ret |-> RetNone, inbuf |-> inbuf, wire |-> <<>>,
          io |-> {}, now |-> now, last_command_time |-> last_command_time,
          doneAt |-> doneAt, gap |-> gap,
          nap |-> nap]
    ELSE LET s == _send_command(<<STATUS_QUERY>>, <<>>, dur, out)
         IN  IF s.result # "ok"
             THEN [result |-> s.result, ret |-> RetNone, inbuf |-> <<>>, wire |-> s.wire,
                   io |-> s.io \cup {"reset_input_buffer"}, now |-> s.now,
                   last_command_time |-> s.last_command_time,
                   doneAt |-> s.doneAt, gap |-> s.gap,
                   nap |-> s.nap]
             ELSE [result |-> "ok",
                   ret |-> IF Len(arrived) > 0 THEN RetBytes(arrived) ELSE RetNone,
                   inbuf |-> <<>>, wire |-> s.wire,
                   io |-> s.io \cup {"reset_input_buffer", "sleep"} \cup
                          (IF Len(arrived) > 0 THEN {"read"} ELSE {}),
                   now |-> s.now + QUERY_WAIT,
                   last_command_time |-> s.last_command_time,
                   doneAt |-> s.doneAt, gap |-> s.gap,
                   nap |-> s.nap]

query_status ==
    /\ CanCall
    /\ \E arrived \in SeqsUpTo(StatusBytes, MaxBuf), in \in SendInputs :
          LET r == QueryStatus(arrived, in[1], in[2])
          IN  /\ r.result = "ok" \/ arrived = <<>>
              /\ CommitSend(r)
              /\ ret' = r.ret
              /\ inbuf' = r.inbuf
              /\ call' = [Call("query_status", 0, FALSE) EXCEPT !.data = arrived]
    /\ pre' = Snapshot
    /\ UNCHANGED <<pc, i>>

\* ----------------------------------------------------------- controller
\* RelayController: the relay each role is wired to
RELAY_CHARGE == 1
RELAY_LOAD_6OHM == 2
RELAY_LOAD_20OHM == 3
RELAY_LOAD_75OHM == 4

\* (mutant) a cache update that forgets the other roles
RoleCache_Others(res, relay, state) ==
    IF res = "ok" THEN [r \in DOMAIN states |-> r = relay /\ state] ELSE states

\* (mutant) a cache update made whether or not set_relay returned
RoleCache_Eager(res, relay, state) == [states EXCEPT ![relay] = state]

\* `self.driver.set_relay(R, state)` then `self.states[R] = state`: the assignment
\* is reached only when set_relay returned
RoleCache(res, relay, state) ==
    IF res = "ok" THEN [states EXCEPT ![relay] = state] ELSE states

\* a role setter of the controller
SetRole(op, relay, state) ==
    /\ \E in \in SendInputs :
          LET r == SetRelay(relay, state, <<>>, in[1], in[2])
          IN  /\ CommitDriver(r)
              /\ states' = RoleCache(r.result, relay, state)
    /\ call' = Call(op, 0, state)
    /\ pre' = Snapshot
    /\ ret' = RetNone
    /\ UNCHANGED <<inbuf, pc, i>>

set_charge(state) == CanCall /\ SetRole("set_charge", RELAY_CHARGE, state)

set_load_6ohm(state) == CanCall /\ SetRole("set_load_6ohm", RELAY_LOAD_6OHM, state)

set_load_20ohm(state) == CanCall /\ SetRole("set_load_20ohm", RELAY_LOAD_20OHM, state)

set_load_75ohm(state) == CanCall /\ SetRole("set_load_75ohm", RELAY_LOAD_75OHM, state)

\* (mutant) the load roles taken from the largest resistor down
LoadRelays_Descending == <<RELAY_LOAD_75OHM, RELAY_LOAD_20OHM, RELAY_LOAD_6OHM>>

\* the relays set_all_loads goes through, in the order of its three statements
LoadRelays == <<RELAY_LOAD_6OHM, RELAY_LOAD_20OHM, RELAY_LOAD_75OHM>>

\* RelayController.set_all_loads is entered by this action and runs one of its
\* three setter calls per step
set_all_loads(state) == CanCall /\ EnterBulk("set_all_loads", state)

\* the i-th setter call of set_all_loads; an exception leaves the call
set_all_loads_step ==
    /\ pc = "set_all_loads"
    /\ \E in \in SendInputs :
          LET r == SetRelay(LoadRelays[i], call.on, wire, in[1], in[2])
          IN  /\ CommitDriver(r)
              /\ states' = RoleCache(r.result, LoadRelays[i], call.on)
    /\ IF result' = "ok" /\ i < Len(LoadRelays)
       THEN pc' = pc /\ i' = i + 1
       ELSE pc' = "idle" /\ i' = 0
    /\ call' = (IF result' = "ok" THEN call ELSE [call EXCEPT !.n = i])
    /\ UNCHANGED <<inbuf, pre, ret>>

\* `for relay_num in self.states: self.states[relay_num] = False`, which follows
\* `self.driver.all_off()` and is reached only when that returned
ClearCache(res) ==
    IF res = "ok" THEN [r \in DOMAIN states |-> FALSE] ELSE states

\* RelayController.all_off is entered by this action; the loop of the driver's
\* all_off then runs one iteration per step
RelayController_all_off == CanCall /\ EnterBulk("controller_all_off", FALSE)

\* one iteration of the driver's all_off on behalf of the controller; the last one
\* is followed by the loop over the cache, an exception leaves both
RelayController_all_off_step ==
    /\ pc = "controller_all_off"
    /\ \E in \in SendInputs : CommitDriver(SetRelay(i, FALSE, wire, in[1], in[2]))
    /\ IF result' = "ok" /\ i < RELAY_COUNT
       THEN pc' = pc /\ i' = i + 1 /\ states' = states
       ELSE pc' = "idle" /\ i' = 0 /\ states' = ClearCache(result')
    /\ call' = (IF result' = "ok" THEN call ELSE [call EXCEPT !.n = i])
    /\ UNCHANGED <<inbuf, pre, ret>>

\* ------------------------------------------------------------ load maths
\* the floats of the controller as exact fractions <<numerator, denominator>> in
\* lowest terms
RECURSIVE Gcd(_, _)
Gcd(a, b) == IF b = 0 THEN a ELSE Gcd(b, a % b)

Q(n, d) == LET g == Gcd(n, d) IN IF g = 0 THEN <<0, 1>> ELSE <<n \div g, d \div g>>
QAdd(p, q) == Q(p[1] * q[2] + q[1] * p[2], p[2] * q[2])
QMul(p, q) == Q(p[1] * q[1], p[2] * q[2])
QInv(p) == Q(p[2], p[1])

RetFloat(q) == [kind |-> "float", data |-> q]

\* (mutant) a list that takes the charge relay for a fourth load
Resistances_WithCharge(st) ==
    (IF st[RELAY_CHARGE] THEN <<6>> ELSE <<>>) \o
    (IF st[RELAY_LOAD_20OHM] THEN <<20>> ELSE <<>>) \o
    (IF st[RELAY_LOAD_75OHM] THEN <<75>> ELSE <<>>)

\* `resistances`: 6.0, 20.0 and 75.0 appended for the loads cached as active
Resistances(st) ==
    (IF st[RELAY_LOAD_6OHM] THEN <<6>> ELSE <<>>) \o
    (IF st[RELAY_LOAD_20OHM] THEN <<20>> ELSE <<>>) \o
    (IF st[RELAY_LOAD_75OHM] THEN <<75>> ELSE <<>>)

\* `sum(1.0/r for r in resistances)`
RECURSIVE SumInv(_)
SumInv(rs) == IF rs = <<>> THEN <<0, 1>> ELSE QAdd(Q(1, Head(rs)), SumInv(Tail(rs)))

\* the value of RelayController.get_total_load_resistance on the cache st
TotalLoadResistance(st) ==
    LET resistances == Resistances(st)
        total_inv == SumInv(resistances)
    IN  IF resistances = <<>> THEN <<0, 1>>
        ELSE IF total_inv[1] > 0 THEN QInv(total_inv) ELSE <<0, 1>>

\* (mutant) a current that multiplies where it should divide
ExpectedCurrent_Times(st, voltage_v) ==
    LET resistance == TotalLoadResistance(st)
    IN  IF resistance[1] > 0 THEN QMul(Q(voltage_v, 1), resistance) ELSE <<0, 1>>

\* the value of RelayController.get_expected_current(voltage_v) on the cache st
ExpectedCurrent(st, voltage_v) ==
    LET resistance == TotalLoadResistance(st)
    IN  IF resistance[1] > 0 THEN QMul(Q(voltage_v, 1), QInv(resistance)) ELSE <<0, 1>>

Voltages == 0..MaxVolt

\* a getter of the controller: it reads the cache and changes nothing
Getter(op, arg, value) ==
    /\ call' = Call(op, arg, FALSE)
    /\ pre' = Snapshot
    /\ result' = "ok" /\ ret' = RetFloat(value) /\ wire' = <<>> /\ io' = {}
    /\ UNCHANGED <<drvVars, ctlVars, now, inbuf, posVars, sendVars, envVars>>

get_total_load_resistance ==
    CanCall /\ Getter("get_total_load_resistance", 0, TotalLoadResistance(states))

get_expected_current(voltage_v) ==
    CanCall /\ Getter("get_expected_current", voltage_v, ExpectedCurrent(states, voltage_v))

\* ------------------------------------------------------------------ GUI
\* RelayManualControlGUI._on_closing, entered by this action: `self.relay_driver.all_off()`
\* runs one iteration per step
_on_closing == CanCall /\ EnterBulk("_on_closing", FALSE)

\* one iteration of the driver's all_off; `except: pass` swallows its exception,
\* and disconnect follows either way
_on_closing_step ==
    /\ pc = "_on_closing"
    /\ \E in \in SendInputs : CommitSend(SetRelay(i, FALSE, wire, in[1], in[2]))
    /\ IF result' = "ok" /\ i < RELAY_COUNT
       THEN pc' = pc /\ i' = i + 1
       ELSE pc' = "_on_closing_disconnect" /\ i' = 0
    /\ call' = (IF result' = "ok" THEN call ELSE [call EXCEPT !.n = i])
    /\ UNCHANGED <<inbuf, pre, ret>>

\* `self.relay_driver.disconnect()` and `self.root.destroy()`: the window is gone
\* and nothing is called afterwards
_on_closing_disconnect ==
    /\ pc = "_on_closing_disconnect"
    /\ \E in \in DisconnectInputs :
          LET r == Disconnect(in[1], in[2])
          IN  /\ serial_conn' = r.serial_conn
              /\ inbuf' = r.inbuf
              /\ result' = r.result
              /\ io' = r.io
              /\ wire' = wire \o r.wire
              /\ last_command_time' = r.last_command_time
              /\ channels' = (IF "close" \in r.io /\ r.serial_conn # "open"
                              THEN channels - 1 ELSE channels)
    /\ pc' = "idle" /\ scope' = "deleted"
    /\ UNCHANGED <<port, now, ctlVars, i, call, pre, ret, sendVars, relay_count>>

\* the board sends a byte nobody asked for: it waits in the inbound buffer of the
\* open channel
Receive ==
    /\ pc = "idle" /\ IsOpen
    /\ Len(inbuf) < MaxBuf
    /\ \E b \in StatusBytes : inbuf' = Append(inbuf, b)
    /\ UNCHANGED <<drvVars, ctlVars, now, posVars, call, pre, result, ret, wire, io, sendVars,
                   envVars>>

\* ----------------------------------------------------------------- spec
Next ==
    \/ Tick
    \/ connect
    \/ disconnect
    \/ __enter__
    \/ \E raised \in BOOLEAN : __exit__(raised)
    \/ __del__
    \/ \E n \in RelayArgs, on \in BOOLEAN : set_relay(n, on)
    \/ \E n \in RelayArgs : relay_on(n)
    \/ \E n \in RelayArgs : relay_off(n)
    \/ all_on
    \/ all_on_step
    \/ all_off
    \/ all_off_step
    \/ query_status

Spec == Init /\ [][Next]_vars

\* the driver with a board that talks: connection, queries and unsolicited bytes
NextQuery ==
    \/ Tick
    \/ connect
    \/ disconnect
    \/ Receive
    \/ query_status

SpecQuery == Init /\ [][NextQuery]_vars

\* the controller, on a driver that is connected and disconnected beside it
NextController ==
    \/ Tick
    \/ connect
    \/ disconnect
    \/ \E on \in BOOLEAN : set_charge(on)
    \/ \E on \in BOOLEAN : set_load_6ohm(on)
    \/ \E on \in BOOLEAN : set_load_20ohm(on)
    \/ \E on \in BOOLEAN : set_load_75ohm(on)
    \/ \E on \in BOOLEAN : set_all_loads(on)
    \/ set_all_loads_step
    \/ RelayController_all_off
    \/ RelayController_all_off_step

SpecController == Init /\ [][NextController]_vars

\* the manual-control window on either board type: the driver calls its handlers
\* make, and the driver's API as any caller may use it
NextGUI ==
    \/ Tick
    \/ connect
    \/ disconnect
    \/ \E n \in RelayArgs, on \in BOOLEAN : set_relay(n, on)
    \/ \E n \in RelayArgs : relay_on(n)
    \/ \E n \in RelayArgs : relay_off(n)
    \/ all_on
    \/ all_on_step
    \/ _on_closing
    \/ _on_closing_step
    \/ _on_closing_disconnect

SpecGUI == InitGUI /\ [][NextGUI]_vars

\* the controller's load arithmetic, read between calls of the role setters
NextLoads ==
    \/ \E on \in BOOLEAN : set_charge(on)
    \/ \E on \in BOOLEAN : set_load_6ohm(on)
    \/ \E on \in BOOLEAN : set_load_20ohm(on)
    \/ \E on \in BOOLEAN : set_load_75ohm(on)
    \/ get_total_load_resistance
    \/ \E v \in Voltages : get_expected_current(v)

SpecLoads == Init /\ [][NextLoads]_vars

TypeOK ==
    /\ port \in {NoPort} \cup Devices
    /\ serial_conn \in {"None", "open", "closed"}
    /\ last_command_time \in Nat
    /\ states \in [1..4 -> BOOLEAN]
    /\ now \in Nat
    /\ inbuf \in SeqsUpTo(StatusBytes, MaxBuf)
    /\ pc \in {"idle", "all_on", "all_off", "controller_all_off", "set_all_loads",
               "_on_closing", "_on_closing_disconnect"}
    /\ i \in 0..RELAY_COUNT
    /\ scope \in {"out", "in", "deleted"}
    /\ result \in {"ok", "NotConnected", "InvalidArgument", "DeviceNotFound",
                   "ConnectionFailed", "TransportError"}
    /\ ret.kind \in {"None", "True", "bytes", "float"}
    /\ last_command_time <= now
    /\ channels \in 0..1
    /\ relay_count \in {4, RELAY_COUNT}
    /\ nap = NoNap \/ (nap.elapsed \in 0..COMMAND_DELAY /\ nap.slept \in 0..COMMAND_DELAY)

\* --------------------------------------------------------------- claims
\* the calls that reach set_relay with the caller's relay number
SetCalls == {"set_relay", "relay_on", "relay_off"}
BulkCalls == {"all_on", "all_off"}
Teardowns == {"disconnect", "__exit__", "__del__"}

\* the frame the wire protocol prescribes for relay n and state on
ExpectedFrame(n, on) ==
    <<160, n, IF on THEN 1 ELSE 0, (160 + n + (IF on THEN 1 ELSE 0)) % 256>>

\* C1: any two consecutive sends that completed (write and flush returned) are at
\* least 50 ms apart, completion to completion, whatever operations made them
C1_Spacing == gap # NoTime => gap >= COMMAND_DELAY

\* two sends completed, the later one by a set_relay that had to sleep
C1_Witness ==
    /\ gap # NoTime /\ doneAt = now
    /\ call.op = "set_relay" /\ result = "ok" /\ "sleep" \in io

\* C2: set_relay with a relay number below 1 or above 8 fails with InvalidArgument,
\* hands nothing to the channel and leaves the last-send timestamp as it was
C2_InvalidRejected ==
    (call.op = "set_relay" /\ (call.n < 1 \/ call.n > 8)) =>
        /\ result = "InvalidArgument"
        /\ wire = <<>> /\ io = {}
        /\ last_command_time = pre.last_command_time

\* a relay number above 8 is rejected on an open connection that has sent before
C2_Witness ==
    /\ call.op = "set_relay" /\ call.n > 8 /\ call.on
    /\ IsOpen /\ doneAt # NoTime /\ result = "InvalidArgument"

\* C3: set_relay(N, on) with N in 1..8 on an open connection hands the channel the
\* frame [0xA0, N, S, (0xA0+N+S) mod 256] and nothing else: exactly that frame when
\* it returns, and at most that frame when the write raises; the checksum is a byte.
\* The frames of the bulk operations, one set_relay per relay 1..8, are the same.
C3_Frame ==
    /\ (call.op \in SetCalls /\ call.n \in 1..8 /\ pre.serial_conn = "open") =>
          /\ wire \in {<<>>, <<ExpectedFrame(call.n, call.on)>>}
          /\ result = "ok" => wire = <<ExpectedFrame(call.n, call.on)>>
    /\ call.op \in BulkCalls =>
          \A k \in 1..Len(wire) : wire[k] = ExpectedFrame(k, call.on)
    /\ \A k \in 1..Len(wire) :
          Len(wire[k]) = 4 => wire[k][4] \in 0..255

\* set_relay(8, on) returned on an open connection
C3_Witness ==
    /\ call.op = "set_relay" /\ call.n = 8 /\ call.on
    /\ pre.serial_conn = "open" /\ result = "ok" /\ Len(wire) = 1

\* C4: with no open channel every send of a valid relay number, single or bulk,
\* fails with NotConnected, writes nothing and leaves the last-send timestamp
C4_NotConnected ==
    (/\ call.op \in SetCalls \cup BulkCalls
     /\ call.op \in SetCalls => call.n \in 1..8
     /\ pre.serial_conn # "open"
     /\ pc = "idle") =>
        /\ result = "NotConnected"
        /\ wire = <<>> /\ io = {}
        /\ last_command_time = pre.last_command_time

\* a bulk call fails on a driver whose connection was closed after a send
C4_Witness ==
    /\ call.op = "all_off" /\ pc = "idle" /\ pre.serial_conn = "None"
    /\ doneAt # NoTime /\ result = "NotConnected"

\* C5 (state part): connect with no port set and no matching device enumerated
\* fails with DeviceNotFound, calls no constructor and leaves the driver closed
C5_NotFound ==
    (/\ call.op = "connect"
     /\ pre.port = NoPort /\ pre.serial_conn # "open"
     /\ call.n = 0) =>
        /\ result = "DeviceNotFound"
        /\ "Serial" \notin io
        /\ port = NoPort
        /\ serial_conn = pre.serial_conn /\ ~IsOpen

C6_OpenFailed ==
    (call.op = "connect" /\ "Serial" \in io /\ ~call.on) =>
        /\ result = "ConnectionFailed"
        /\ serial_conn = pre.serial_conn /\ ~IsOpen

C7_ConnectNoOp ==
    (call.op = "connect" /\ pre.serial_conn = "open") =>
        /\ result = "ok" /\ ret = RetTrue
        /\ io = {}
        /\ port = pre.port
        /\ serial_conn = "open"
        /\ last_command_time = pre.last_command_time

\* connect is called on an open connection that has sent a frame
C7_Witness ==
    /\ call.op = "connect" /\ pre.serial_conn = "open"
    /\ doneAt # NoTime /\ result = "ok"

\* C8: disconnect is idempotent: a disconnect that follows a disconnect changes
\* nothing, and disconnect on a driver with no open channel changes nothing
C8_Idempotent ==
    [][(disconnect /\ (call.op = "disconnect" \/ ~IsOpen)) =>
          UNCHANGED <<port, serial_conn, last_command_time, inbuf>>]_vars

\* C9: disconnect never raises, called directly, on scope exit or on deletion
C9_NeverRaises == call.op \in Teardowns => result = "ok"

\* C10: once the scope is left (normally or by an error) or the driver is torn down
\* explicitly, the driver holds no open channel
C10_ClosedOnExit ==
    (pc = "idle" /\ call.op \in {"__exit__", "__del__", "disconnect"}) => serial_conn # "open"

\* the frames for relays 1..m in ascending order, all with state on
BulkFrames(m, on) == [k \in 1..m |-> ExpectedFrame(k, on)]

\* C11: on an open connection, an all_on (all_off) that meets no transport failure
\* has transmitted exactly the 8 set-relay frames for relays 1..8, in ascending
\* order, each with state on (off), and nothing else
C11_BulkFrames ==
    (call.op \in BulkCalls /\ pc = "idle" /\ pre.serial_conn = "open" /\ result = "ok") =>
        /\ Len(wire) = 8
        /\ wire = BulkFrames(8, call.op = "all_on")

\* an all_on and an all_off have each run to the end on an open connection
C11_Witness ==
    /\ call.op = "all_off" /\ pc = "idle" /\ result = "ok"
    /\ wire = BulkFrames(8, FALSE)
    /\ doneAt # NoTime /\ pre.last_command_time > 0

\* C12 as stated: when the send for relay k fails during a bulk call, the channel
\* holds the frames for relays 1..k-1 and no frame for relays k..8
C12_NothingFromK ==
    (call.op \in BulkCalls /\ pc = "idle" /\ result # "ok") =>
        wire = BulkFrames(call.n - 1, call.on)

\* C12, amended: when the send for relay k fails during a bulk call, the error
\* leaves the call at once; the channel holds the frames for relays 1..k-1, in
\* order and with the state of the call (nothing compensating, nothing repeated),
\* no frame for relays k+1..8, and the frame for relay k once, and only when write
\* had returned and the error came from flush
C12_NoRollback ==
    (call.op \in BulkCalls /\ pc = "idle" /\ result # "ok") =>
        /\ call.n \in 1..8
        /\ result \in {"NotConnected", "TransportError"}
        /\ Len(wire) \in {call.n - 1, call.n}
        /\ wire = BulkFrames(Len(wire), call.on)
        /\ Len(wire) = call.n <=> (result = "TransportError" /\ "flush" \in io)
        /\ result = "NotConnected" => (call.n = 1 /\ pre.serial_conn # "open")

\* an all_on has failed in write at a relay after the first, with the frames of
\* the relays before it on the channel
C12_Witness ==
    /\ call.op = "all_on" /\ pc = "idle" /\ result = "TransportError"
    /\ call.n > 1 /\ Len(wire) = call.n - 1 /\ "flush" \notin io

\* C13 as stated: a complete all_on takes at least 8 command delays
C13_EightDelays ==
    (call.op = "all_on" /\ pc = "idle" /\ result = "ok") =>
        now - pre.started >= 8 * COMMAND_DELAY

\* C13, amended: a complete all_on takes at least 7 command delays, and at least
\* 8 less the time since the last completed send when that send was less than one
\* command delay before the call: the first send waits only for what is left of
\* the delay, each of the other seven for all of it
C13_SevenDelays ==
    (call.op = "all_on" /\ pc = "idle" /\ result = "ok") =>
        /\ now - pre.started >= 7 * COMMAND_DELAY
        /\ now - pre.started >=
               8 * COMMAND_DELAY - Min(COMMAND_DELAY, pre.started - pre.last_command_time)

\* an all_on entered a full command delay after the last send has completed in
\* 7 command delays
C13_Witness ==
    /\ call.op = "all_on" /\ pc = "idle" /\ result = "ok"
    /\ pre.started - pre.last_command_time >= COMMAND_DELAY
    /\ now - pre.started = 7 * COMMAND_DELAY

\* C14: nothing is de-duplicated: a set_relay(N, s) with a valid N on an open
\* connection that repeats the call before it, so that the last command for relay N
\* carried the same state s, still writes its frame, and that frame completes at
\* least a command delay after the one before it
C14_NoDedup ==
    (call.op = "set_relay" /\ call.again /\ call.n \in 1..8 /\ pre.serial_conn = "open") =>
        /\ "write" \in io
        /\ result \in {"ok", "TransportError"}
        /\ result = "ok" =>
              /\ wire = <<ExpectedFrame(call.n, call.on)>>
              /\ doneAt - pre.last_command_time >= COMMAND_DELAY
              /\ gap # NoTime /\ gap >= COMMAND_DELAY

\* set_relay(1, on) has completed twice in a row, the second time at once after
\* the first, so that it had to wait
C14_Witness ==
    /\ call = [op |-> "set_relay", n |-> 1, on |-> TRUE, again |-> TRUE, fresh |-> FALSE,
               data |-> <<>>]
    /\ pre.serial_conn = "open" /\ result = "ok"
    /\ wire = <<ExpectedFrame(1, TRUE)>>
    /\ "sleep" \in io

\* C15: query_status fails with NotConnected exactly when there is no open channel,
\* and then calls nothing on the channel or its inbound buffer; on an open channel
\* it never fails with NotConnected
C15_QueryNotConnected ==
    call.op = "query_status" =>
        /\ result = "NotConnected" <=> pre.serial_conn # "open"
        /\ pre.serial_conn # "open" =>
              /\ io = {} /\ wire = <<>> /\ ret = RetNone
              /\ serial_conn = pre.serial_conn
              /\ last_command_time = pre.last_command_time

\* query_status was called on a driver whose channel object is closed
C15_Witness ==
    /\ call.op = "query_status" /\ pre.serial_conn = "closed"
    /\ result = "NotConnected"

\* C16: on an open connection query_status clears the inbound buffer, transmits
\* the one byte 0xFF, waits, and returns exactly the bytes that arrived after the
\* clear, unchanged and in order, or none when no byte arrived; what was buffered
\* before the call is never part of the result
C16_QueryResult ==
    (call.op = "query_status" /\ pre.serial_conn = "open") =>
        /\ "reset_input_buffer" \in io
        /\ result = "ok" =>
              /\ wire = <<(<<255>>)>>
              /\ now - doneAt >= QUERY_WAIT
              /\ ret = (IF call.data = <<>> THEN RetNone ELSE RetBytes(call.data))
        /\ result # "ok" => ret = RetNone

\* a query found stale bytes in the buffer and returned the other bytes that
\* arrived after the clear
C16_Witness ==
    /\ call.op = "query_status" /\ pre.serial_conn = "open" /\ result = "ok"
    /\ pre.inbuf = <<17, 17>> /\ call.data = <<34, 17>>
    /\ ret = RetBytes(<<34, 17>>)

\* the role setters, and the relay the specification assigns to each role
RoleCalls == {"set_charge", "set_load_6ohm", "set_load_20ohm", "set_load_75ohm"}

RoleRelay(op) ==
    CASE op = "set_charge" -> 1
      [] op = "set_load_6ohm" -> 2
      [] op = "set_load_20ohm" -> 3
      [] op = "set_load_75ohm" -> 4

\* C17: a role setter called with state s transmits exactly one set-relay frame,
\* for the relay of its role (charge 1, load-6ohm 2, load-20ohm 3, load-75ohm 4)
\* and with state s, and on success sets the cache entry of that relay to s and
\* no other entry
C17_RoleFrame ==
    call.op \in RoleCalls =>
        /\ Len(wire) <= 1
        /\ \A k \in 1..Len(wire) : wire[k] = ExpectedFrame(RoleRelay(call.op), call.on)
        /\ result = "ok" =>
              /\ Len(wire) = 1
              /\ states = [pre.states EXCEPT ![RoleRelay(call.op)] = call.on]

\* set_load_20ohm(on) has succeeded while the charge role was cached as on
C17_Witness ==
    /\ call.op = "set_load_20ohm" /\ call.on /\ result = "ok"
    /\ pre.states[1] /\ ~pre.states[3]
    /\ states[1] /\ states[3] /\ ~states[2] /\ ~states[4]

\* C18: when the set_relay of a role setter fails, with NotConnected or with a
\* transport error, the error reaches the caller and the whole cache is as it was
C18_CacheOnFailure ==
    (call.op \in RoleCalls /\ result # "ok") =>
        /\ result \in {"NotConnected", "TransportError"}
        /\ states = pre.states

\* set_charge(on) has failed in flush with another role cached as on, and
\* set_load_6ohm(off) has failed on a driver that is not connected
C18_Witness ==
    \/ /\ call.op = "set_charge" /\ call.on /\ result = "TransportError"
       /\ "flush" \in io /\ pre.states[2] /\ ~states[1]
    \/ /\ call.op = "set_load_6ohm" /\ ~call.on /\ result = "NotConnected"
       /\ states[2]

\* C19: the controller's all_off always clears the cache, whether or not the
\* driver's all_off failed
C19_AlwaysCleared ==
    (call.op = "controller_all_off" /\ pc = "idle") => \A r \in 1..4 : ~states[r]

\* C20: the controller's all_off has the driver transmit the off frames of all 8
\* relays and then sets every cached state to off; from any cache the resulting
\* cache is all off, and a second all_off leaves it unchanged
C20_AllOff ==
    (call.op = "controller_all_off" /\ pc = "idle") =>
        /\ result = "ok" => wire = BulkFrames(8, FALSE)
        /\ states = [r \in 1..4 |-> FALSE]
        /\ call.again => states = pre.states

\* the frames set_all_loads is specified to send: relays 2, 3, 4 in this order
LoadFrames(m, on) == [k \in 1..m |-> ExpectedFrame(k + 1, on)]

\* C21: set_all_loads(s) goes through the load roles in the order 6 ohm (relay 2),
\* 20 ohm (relay 3), 75 ohm (relay 4) and leaves the charge relay and its cache
\* entry alone; when the k-th setter fails the error leaves the call, the entries
\* of the roles before it hold s, those of the failing and the later roles are as
\* they were, and no frame has been sent for a later role
C21_AllLoads ==
    call.op = "set_all_loads" =>
        /\ Len(wire) <= 3 /\ wire = LoadFrames(Len(wire), call.on)
        /\ states[1] = pre.states[1]
        /\ (pc = "idle" /\ result = "ok") =>
              /\ Len(wire) = 3
              /\ \A r \in 2..4 : states[r] = call.on
        /\ (pc = "idle" /\ result # "ok") =>
              /\ call.n \in 1..3
              /\ result \in {"NotConnected", "TransportError"}
              /\ Len(wire) \in {call.n - 1, call.n}
              /\ \A r \in 2..4 :
                    states[r] = (IF r - 1 < call.n THEN call.on ELSE pre.states[r])

\* set_all_loads(on) has failed at its second setter while the charge role and
\* the 75 ohm role were cached as on; set_all_loads(off) has failed at its third
C21_Witness ==
    /\ call.op = "set_all_loads" /\ pc = "idle" /\ result = "TransportError"
    /\ \/ /\ call.on /\ call.n = 2
          /\ pre.states = <<TRUE, FALSE, FALSE, TRUE>>
          /\ states = <<TRUE, TRUE, FALSE, TRUE>>
       \/ /\ ~call.on /\ call.n = 3 /\ pre.states[4] /\ states[4] /\ ~states[3]

\* the parallel resistance 1 / sum(1/r) of each set of the loads 6, 20 and 75 ohm
ParallelOf(l6, l20, l75) ==
    CASE ~l6 /\ ~l20 /\ ~l75 -> <<0, 1>>
      [] l6 /\ ~l20 /\ ~l75 -> <<6, 1>>
      [] ~l6 /\ l20 /\ ~l75 -> <<20, 1>>
      [] ~l6 /\ ~l20 /\ l75 -> <<75, 1>>
      [] l6 /\ l20 /\ ~l75 -> <<60, 13>>
      [] l6 /\ ~l20 /\ l75 -> <<50, 9>>
      [] ~l6 /\ l20 /\ l75 -> <<300, 19>>
      [] l6 /\ l20 /\ l75 -> <<100, 23>>

\* C22: total_load_resistance is a function of the cached states of the three
\* load roles alone: 0 with no load active, otherwise 1 / sum(1/r) over the active
\* loads of 6, 20 and 75 ohm, so 20 with the 20 ohm load alone and 60/13 with the
\* 6 and 20 ohm loads
C22_TotalResistance ==
    call.op = "get_total_load_resistance" =>
        /\ ret = RetFloat(ParallelOf(states[2], states[3], states[4]))
        /\ states = pre.states

\* the resistance was read with the charge role and the 6 and 20 ohm loads cached
\* as active, and came out as 60/13
C22_Witness ==
    /\ call.op = "get_total_load_resistance"
    /\ states = <<TRUE, TRUE, TRUE, FALSE>>
    /\ ret = RetFloat(<<60, 13>>)

\* C23: expected_current(v) is v / total_load_resistance() when that resistance
\* is above 0 and 0 otherwise: 0 for every v with no load cached as active, and 2
\* for v = 12 with the 6 ohm load alone
C23_ExpectedCurrent ==
    call.op = "get_expected_current" =>
        LET r == ParallelOf(states[2], states[3], states[4])
        IN  /\ ret.kind = "float"
            /\ r[1] = 0 => ret.data = <<0, 1>>
            /\ r[1] > 0 => ret.data[1] * r[1] = call.n * r[2] * ret.data[2]
            /\ Gcd(ret.data[1], ret.data[2]) = 1
            /\ (call.n = 12 /\ r = <<6, 1>>) => ret.data = <<2, 1>>

\* the current at 12 V was read with the 6 ohm load alone cached as active, and
\* came out as 2
C23_Witness ==
    /\ call.op = "get_expected_current" /\ call.n = 12
    /\ states[2] /\ ~states[3] /\ ~states[4]
    /\ ret = RetFloat(<<2, 1>>)

\* C24: relay numbers are validated against the channel count of the configured
\* board: a set_relay, relay_on or relay_off for a relay above it is rejected and
\* writes no frame, and a bulk operation writes frames for no more relays than the
\* board has
C24_Revalidated ==
    /\ (call.op \in SetCalls /\ call.n > relay_count) =>
          (result = "InvalidArgument" /\ wire = <<>>)
    /\ call.op \in BulkCalls \cup {"_on_closing"} => Len(wire) <= relay_count

\* C25: in every reachable state the driver has at most one serial channel open,
\* and an open channel is the one the driver refers to: connect opens none while
\* one is open, and no call leaves an opened channel behind
C25_OneChannel ==
    /\ channels <= 1
    /\ channels = (IF serial_conn = "open" THEN 1 ELSE 0)
    /\ (call.op \in {"connect", "__enter__"} /\ pre.serial_conn = "open") => "Serial" \notin io

\* connect has opened a channel anew on a driver that still held the closed object
\* of a disconnect that failed
C25_Witness ==
    /\ call.op = "connect" /\ pre.serial_conn = "closed"
    /\ "Serial" \in io /\ serial_conn = "open" /\ channels = 1

\* the calls that send one frame, or none
OneSendCalls == SetCalls \cup {"query_status"}

\* C26 (state part): the timestamp is the completion time of the last send whose
\* write and flush returned; a send that fails and a connect, a disconnect or a
\* rejected set_relay leave it as it was
C26_StampKept ==
    /\ last_command_time = (IF doneAt = NoTime THEN 0 ELSE doneAt)
    /\ call.op \in Teardowns \cup {"connect", "__enter__"} =>
          last_command_time = pre.last_command_time
    /\ (call.op \in OneSendCalls /\ result # "ok") =>
          last_command_time = pre.last_command_time
    /\ (call.op \in OneSendCalls /\ result = "ok") =>
          ({"write", "flush"} \subseteq io /\ last_command_time = doneAt)

\* C26: the last-send timestamp is changed only by a send, only once its write and
\* flush have returned, and to the time at which they did; a failed send, connect,
\* disconnect and a rejected set_relay never change it
C26_StampOnlyBySend ==
    /\ []C26_StampKept
    /\ [][last_command_time' # last_command_time =>
            /\ result' = "ok" /\ {"write", "flush"} \subseteq io'
            /\ call'.op \in OneSendCalls \cup BulkCalls
            /\ last_command_time' =
                  (IF call'.op = "query_status" THEN now' - QUERY_WAIT ELSE now')]_vars

\* a set_relay whose flush raised has left the timestamp of an earlier send alone
C26_Witness ==
    /\ call.op = "set_relay" /\ result = "TransportError" /\ "flush" \in io
    /\ pre.last_command_time > 0
    /\ last_command_time = pre.last_command_time

\* C27: the spacing delay of a send suspends the caller for at most one command
\* delay: it sleeps for the delay less the elapsed time, more than 0 and at most
\* the delay, when less than the delay has elapsed since the last send, and not
\* at all otherwise, as in the first send after construction
C27_SleepBound ==
    /\ nap # NoNap =>
          /\ nap.slept <= COMMAND_DELAY
          /\ nap.elapsed < COMMAND_DELAY =>
                (nap.slept = COMMAND_DELAY - nap.elapsed /\ nap.slept > 0)
          /\ nap.elapsed >= COMMAND_DELAY => nap.slept = 0
    /\ (call.op \in SetCalls /\ "write" \in io /\ pre.last_command_time = 0) =>
          (nap.slept = 0 /\ "sleep" \notin io)

\* a send made half a command delay after the last one has slept the other half
C27_Witness ==
    /\ call.op \in SetCalls /\ result = "ok" /\ "sleep" \in io
    /\ nap.elapsed = 1 /\ nap.slept = COMMAND_DELAY - 1

\* the last frame for relay r among the frames of the most recent call is at k
LastFrameFor(r, k) ==
    /\ Len(wire[k]) = 4 /\ wire[k][2] = r
    /\ \A m \in (k + 1)..Len(wire) : wire[m][2] # r

\* C28: after any controller operation, failed partway or not, the cached state of
\* each role relay 1..4 is the state carried by the last frame written for that
\* relay; stated for the relays the most recent call has written a frame for
C28_CacheIsLastFrame ==
    pc = "idle" =>
        \A r \in 1..4, k \in 1..Len(wire) :
            LastFrameFor(r, k) => (states[r] = (wire[k][3] = 1))

\* C29: the argument is validated before the connection is looked at: on a driver
\* with no open channel a set_relay, relay_on or relay_off with a relay number
\* outside 1..8 fails with InvalidArgument, and a call that reports NotConnected,
\* a bulk call included, does so for a relay within 1..8
C29_ValidationFirst ==
    /\ (call.op \in SetCalls /\ call.n \notin 1..8 /\ pre.serial_conn # "open") =>
          result = "InvalidArgument"
    /\ (call.op \in SetCalls \cup BulkCalls /\ pc = "idle" /\ result = "NotConnected") =>
          (call.n \in 1..8 /\ pre.serial_conn # "open")

\* relay_off(9) was rejected on a driver that has never been connected
C29_Witness ==
    /\ call.op = "relay_off" /\ call.n = 9
    /\ pre.serial_conn = "None" /\ pre.port = NoPort
    /\ result = "InvalidArgument"

\* C30 (state part): a connect, a disconnect, a scope entry, a scope exit or a
\* deletion has written no frame
C30_NothingWritten ==
    call.op \in Teardowns \cup {"connect", "__enter__"} =>
        (wire = <<>> /\ "write" \notin io /\ "flush" \notin io)

\* C30: connect and disconnect, and with them scope entry, scope exit and
\* deletion, never transmit a frame: frames are written by the set_relay-based
\* operations and by query_status alone, so that a disconnect leaves every relay
\* as its last command set it
C30_NoFrameOnTeardown ==
    /\ []C30_NothingWritten
    /\ [][(wire' # wire /\ wire' # <<>>) =>
            call'.op \in OneSendCalls \cup BulkCalls]_vars

\* a driver that had switched a relay has been disconnected, and the channel is
\* closed with nothing more written
C30_Witness ==
    /\ call.op = "disconnect" /\ pre.serial_conn = "open" /\ serial_conn = "None"
    /\ doneAt # NoTime /\ io = {"close"} /\ wire = <<>>

\* C31: the spacing floor survives a reconnection on the same driver: disconnect
\* and connect leave the last-send timestamp at the completion time of the last
\* send, and a send that completes after a disconnect and a connect completes at
\* least a command delay after the send completed before them
C31_SpacingSurvives ==
    /\ call.op \in {"disconnect", "__exit__"} =>
          /\ last_command_time = pre.last_command_time
          /\ doneAt # NoTime => last_command_time = doneAt
    /\ (call.op \in {"connect", "__enter__"} /\ call.fresh) =>
          /\ last_command_time = pre.last_command_time
          /\ doneAt # NoTime => last_command_time = doneAt
    /\ (call.op \in OneSendCalls /\ call.fresh /\ result = "ok" /\ gap # NoTime) =>
          /\ gap >= COMMAND_DELAY
          /\ doneAt - pre.last_command_time >= COMMAND_DELAY

\* a send, a disconnect whose close() raised and left the port open, a connect that
\* returned at once, and a send that had to sleep before its write
C31_Witness ==
    /\ call.op = "set_relay" /\ call.fresh /\ result = "ok"
    /\ gap # NoTime /\ pre.last_command_time > 0
    /\ "sleep" \in io /\ wire # <<>>

====
